---- MODULE Spec2Model ----
(***************************************************************************)
(* A model of the helpers of source-map-explorer (src/lib/helpers.ts):     *)
(* mergeRanges, getOccurrencesCount, getCommonPathPrefix, splitLinesByEOL,  *)
(* isEOLAtPosition, formatBytes and formatPercent, and of the attribution  *)
(* engine that the specification composes from them.                       *)
(*                                                                         *)
(* Strings are sequences of UTF-16 code units (naturals), so that sorting, *)
(* splitting and searching are computed on characters as the code does.    *)
(* A mapping range is a record [start, end, source] with inclusive end.    *)
(* A call that can raise returns a record [threw, value].                  *)
(***************************************************************************)
EXTENDS Integers, Sequences, FiniteSets, TLC

VARIABLES
    ranges,           \* mergeRanges: the argument
    mergedRanges,     \* mergeRanges(ranges): outcome of the call
    remergedRanges,   \* mergeRanges(mergeRanges(ranges)): outcome of the composition
    mergePc,          \* "idle" | "call" | "merged" | "remerged"
    subString,        \* getOccurrencesCount: first argument
    string,           \* getOccurrencesCount: second argument
    count,            \* getOccurrencesCount: local `count`
    position,         \* getOccurrencesCount: local `position`
    gocPc,            \* "idle" | "call" | "loop" | "done"
    paths,            \* getCommonPathPrefix: the argument
    commonPrefix,     \* getCommonPathPrefix(paths): the returned string
    prefixPc          \* "idle" | "call" | "done"

VARIABLES
    content,          \* splitLinesByEOL: the argument; isEOLAtPosition: the text
    splitLines,       \* splitLinesByEOL(content): the returned entries
    splitPc,          \* "idle" | "call" | "done"
    eolLine,          \* isEOLAtPosition: line of the position, 1-based
    eolColumn,        \* isEOLAtPosition: column of the position, 0-based
    isEOL,            \* isEOLAtPosition(content, [eolLine, eolColumn])
    eolPc,            \* "idle" | "call" | "done"
    bytes,            \* formatBytes: the number of bytes
    decimals,         \* formatBytes: the decimals argument
    formattedBytes,   \* formatBytes(bytes, decimals): the returned string
    bytesPc,          \* "idle" | "call" | "done"
    value,            \* formatPercent: value
    total,            \* formatPercent: total
    fractionDigits,   \* formatPercent: fractionDigits, -1 for undefined
    formattedPercent, \* formatPercent(value, total, fractionDigits)
    percentPc,        \* "idle" | "call" | "done"
    artifactLength,   \* attribution engine: the length N of the artifact
    mappingEntries,   \* attribution engine: the decoded mapping list
    attribution,      \* attribution engine: outcome of the run (merged ranges)
    sourceAggregate,  \* attribution engine: bytes per source, first seen first
    enginePc          \* "idle" | "call" | "malformed" | "raised" | "done"

VARIABLES
    frameHelper,      \* the helper called twice: "mergeRanges" | "getCommonPathPrefix"
    callerRanges,     \* the caller's ranges array as the caller built it
    callerPaths,      \* the caller's paths array as the caller built it
    heap,             \* the caller's arrays and range objects as they are now
    firstResult,      \* outcome of the first call
    secondResult,     \* outcome of the second call, on the same array
    betweenCalls,     \* calls of the other helper made in between
    framePc           \* "idle" | "first" | "between" | "done"

VARIABLES
    modules,          \* module loader: the registry `modules`
    inGuard,          \* module loader: the flag `inGuard`
    hasErrorUtils,    \* the host has set global.ErrorUtils
    handlerThrows,    \* the global error handler of ErrorUtils rethrows
    stack,            \* the loads in progress, the innermost last
    invocations,      \* how many times each module's factory was invoked
    lastCall          \* the call of define or require that ended last

mergeVars == <<ranges, mergedRanges, remergedRanges, mergePc>>
gocVars == <<subString, string, count, position, gocPc>>
prefixVars == <<paths, commonPrefix, prefixPc>>
eolVars == <<content, splitLines, splitPc, eolLine, eolColumn, isEOL, eolPc>>
fmtVars == <<bytes, decimals, formattedBytes, bytesPc,
             value, total, fractionDigits, formattedPercent, percentPc>>
engineVars == <<artifactLength, mappingEntries, attribution, sourceAggregate, enginePc>>
frameVars == <<frameHelper, callerRanges, callerPaths, heap, firstResult,
               secondResult, betweenCalls, framePc>>
loaderVars == <<modules, inGuard, hasErrorUtils, handlerThrows, stack,
                invocations, lastCall>>
vars == <<ranges, mergedRanges, remergedRanges, mergePc,
          subString, string, count, position, gocPc,
          paths, commonPrefix, prefixPc,
          content, splitLines, splitPc, eolLine, eolColumn, isEOL, eolPc,
          bytes, decimals, formattedBytes, bytesPc,
          value, total, fractionDigits, formattedPercent, percentPc,
          artifactLength, mappingEntries, attribution, sourceAggregate, enginePc,
          frameHelper, callerRanges, callerPaths, heap, firstResult,
          secondResult, betweenCalls, framePc,
          modules, inGuard, hasErrorUtils, handlerThrows, stack,
          invocations, lastCall>>

----------------------------------------------------------------------------
(* Bounds of the model *)

\* offsets of the generated file are 0..MaxOffset
MaxOffset == 4
\* an input of mergeRanges has at most MaxRanges ranges
MaxRanges == 3

\* sources of a range: two files and the null source of unmapped bytes
Sources == {"a.js", "b.js", "null"}

----------------------------------------------------------------------------
(* Generic helpers *)

Min(S) == CHOOSE x \in S : \A y \in S : x <= y

\* the outcome of a call: a returned value, or a raised TypeError
Returned(v) == [threw |-> FALSE, value |-> v]
Threw == [threw |-> TRUE, value |-> <<>>]
NoCall == [threw |-> FALSE, value |-> <<>>]

----------------------------------------------------------------------------
(* mergeRanges, helpers.ts:124-150.  Indices are 1-based here: the code's  *)
(* ranges[i] is ranges[i + 1] of the model.                                *)

MappingRange(s, e, src) == [start |-> s, end |-> e, source |-> src]

\* a source test that every pair of ranges passes
isSourceMatchAlways(rs, i) == TRUE

\* helpers.ts:135  ranges[i].source === ranges[i - 1].source
isSourceMatch(rs, i) == rs[i].source = rs[i - 1].source

\* an adjacency test that also accepts a gap between the two ranges
isConsecutiveOrGap(rs, i) == rs[i].start - rs[i - 1].end >= 1

\* helpers.ts:136  ranges[i].start - ranges[i - 1].end === 1
isConsecutive(rs, i) == rs[i].start - rs[i - 1].end = 1

\* helpers.ts:134-147  the for loop from index i with the accumulator
\* {start, end, source} = acc, and the push after the loop
RECURSIVE mergeLoop(_, _, _, _)
mergeLoop(rs, i, acc, out) ==
    IF i > Len(rs)
    THEN Append(out, acc)
    ELSE IF isSourceMatch(rs, i) /\ isConsecutive(rs, i)
         THEN mergeLoop(rs, i + 1, [acc EXCEPT !.end = rs[i].end], out)
         ELSE mergeLoop(rs, i + 1, rs[i], Append(out, acc))

\* a mergeLoop that forgets the push after the loop (line 147)
mergeRangesNoFinalPush(rs) ==
    IF Len(rs) = 1 THEN Returned(rs)
    ELSE IF Len(rs) = 0 THEN Threw
    ELSE LET all == mergeLoop(rs, 2, rs[1], <<>>)
         IN  Returned(SubSeq(all, 1, Len(all) - 1))

\* helpers.ts:124-150.  With an empty array, line 132 destructures
\* ranges[0] = undefined, which raises a TypeError.
mergeRanges(rs) ==
    IF Len(rs) = 1 THEN Returned(rs)
    ELSE IF Len(rs) = 0 THEN Threw
    ELSE Returned(mergeLoop(rs, 2, rs[1], <<>>))

\* The ordered inputs: at most k ranges, start <= end, every range starting
\* after the end of the one before it (gaps allowed), offsets from..MaxOffset
RECURSIVE OrderedRanges(_, _)
OrderedRanges(from, k) ==
    IF k = 0 \/ from > MaxOffset THEN {<<>>}
    ELSE {<<>>} \cup
         UNION { UNION { { <<MappingRange(se[1], se[2], src)>> \o rest :
                             rest \in OrderedRanges(se[2] + 1, k - 1) } :
                         src \in Sources } :
                 se \in { x \in (from..MaxOffset) \X (from..MaxOffset) : x[1] <= x[2] } }

RangeInputs == OrderedRanges(0, MaxRanges)

----------------------------------------------------------------------------
(* getOccurrencesCount, helpers.ts:82-93 *)

\* strings of getOccurrencesCount are over the characters 'a', 'b'
SearchAlphabet == {97, 98}
\* the searched string has at most MaxStrLen characters
MaxStrLen == 6
\* the substring has at most MaxSubLen characters
MaxSubLen == 2
\* `count` is an IEEE double: count += 1 stops changing it at 2^53.  The
\* model saturates it above every count a string of the model can give.
MaxCount == MaxStrLen + 2

StringsUpTo(alphabet, n) == UNION { [1..k -> alphabet] : k \in 0..n }

\* does `sub` occur in `s` at the 0-based index p
OccursAt(sub, s, p) ==
    /\ p >= 0
    /\ p + Len(sub) <= Len(s)
    /\ \A j \in 1..Len(sub) : s[p + j] = sub[j]

\* String.prototype.indexOf(sub, from): the smallest 0-based index >= from
\* (from clamped to 0..length) where sub occurs, -1 when there is none
indexOf(s, sub, from) ==
    LET start == IF from < 0 THEN 0 ELSE IF from > Len(s) THEN Len(s) ELSE from
        hits == { p \in start..Len(s) : OccursAt(sub, s, p) }
    IN  IF hits = {} THEN -1 ELSE Min(hits)

\* a search that resumes one character after the hit instead of
\* subStringLength characters after it
nextSearchFromOverlapping(pos, subStringLength) == pos + 1

\* helpers.ts:89  position + subStringLength
nextSearchFrom(pos, subStringLength) == pos + subStringLength

----------------------------------------------------------------------------
(* getCommonPathPrefix, helpers.ts:33-53 *)

\* code units: '-' = 45 sorts before '/' = 47, the letter 'a' = 97 after it
SEP == 47
PathAlphabet == {45, 47, 97}
\* a path has at most MaxPathLen characters
MaxPathLen == 2
\* at most MaxPaths paths are given
MaxPaths == 3

PathStrings == StringsUpTo(PathAlphabet, MaxPathLen)

\* the default comparison of Array.prototype.sort: by UTF-16 code units
RECURSIVE StrLess(_, _)
StrLess(a, b) ==
    IF b = <<>> THEN FALSE
    ELSE IF a = <<>> THEN TRUE
    ELSE IF Head(a) # Head(b) THEN Head(a) < Head(b)
    ELSE StrLess(Tail(a), Tail(b))

RECURSIVE insertSorted(_, _)
insertSorted(p, sorted) ==
    IF sorted = <<>> THEN <<p>>
    ELSE IF StrLess(p, Head(sorted)) THEN <<p>> \o sorted
    ELSE <<Head(sorted)>> \o insertSorted(p, Tail(sorted))

\* a copy left in the order of the argument
unsortedPaths(ps) == ps

\* helpers.ts:43  paths.concat().sort(): a sorted copy
RECURSIVE sortPaths(_)
sortPaths(ps) ==
    IF ps = <<>> THEN <<>> ELSE insertSorted(Head(ps), sortPaths(Tail(ps)))

\* split on '/' dropping the separators, as split('/') would
RECURSIVE splitDroppingSeparators(_)
splitDroppingSeparators(s) ==
    IF \A j \in 1..Len(s) : s[j] # SEP THEN <<s>>
    ELSE LET k == Min({ j \in 1..Len(s) : s[j] = SEP })
         IN  <<SubSeq(s, 1, k - 1)>> \o splitDroppingSeparators(SubSeq(s, k + 1, Len(s)))

\* helpers.ts:33,44  split(/(\/)/): the segments between the separators,
\* with every separator kept as a token of its own
RECURSIVE splitPath(_)
splitPath(s) ==
    IF \A j \in 1..Len(s) : s[j] # SEP THEN <<s>>
    ELSE LET k == Min({ j \in 1..Len(s) : s[j] = SEP })
         IN  <<SubSeq(s, 1, k - 1), <<SEP>>>> \o splitPath(SubSeq(s, k + 1, Len(s)))

\* join(''): the concatenation of the tokens
RECURSIVE joinTokens(_)
joinTokens(ts) == IF ts = <<>> THEN <<>> ELSE Head(ts) \o joinTokens(Tail(ts))

\* helpers.ts:48-50  the while loop: the first 0-based index i at which
\* i < L && a1[i] === a2[i] fails (a2[i] is undefined past the end of a2)
RECURSIVE commonRun(_, _, _)
commonRun(a1, a2, i) ==
    IF i < Len(a1) /\ i < Len(a2) /\ a1[i + 1] = a2[i + 1]
    THEN commonRun(a1, a2, i + 1)
    ELSE i

\* a guard that lets a single path through
tooFewPathsOffByOne(ps) == Len(ps) < 1

\* helpers.ts:41  paths.length < 2
tooFewPaths(ps) == Len(ps) < 2

\* helpers.ts:40-53
getCommonPathPrefix(ps) ==
    IF tooFewPaths(ps) THEN <<>>
    ELSE LET A == sortPaths(ps)
             a1 == splitPath(A[1])
             a2 == splitPath(A[Len(A)])
             i == commonRun(a1, a2, 0)
         IN  joinTokens(SubSeq(a1, 1, i))

----------------------------------------------------------------------------
(* splitLinesByEOL and isEOLAtPosition, helpers.ts:61-77 and 95-119 *)

\* helpers.ts:61-62
LF == <<10>>
CR_LF == <<13, 10>>

\* texts are over '\r' = 13, '\n' = 10 and the letter 'a' = 97
TextAlphabet == {10, 13, 97}
\* a text has at most MaxTextLen characters
MaxTextLen == 5
\* positions are (line, column) with line in 1..MaxLine, column in 0..MaxColumn
MaxLine == 4
MaxColumn == 4

\* String.prototype.split(sep) for a non-empty separator string: the pieces
\* between the occurrences of sep, found left to right without overlap
RECURSIVE splitOn(_, _)
splitOn(s, sep) ==
    LET p == indexOf(s, sep, 0)
    IN  IF p = -1 THEN <<s>>
        ELSE <<SubSeq(s, 1, p)>> \o splitOn(SubSeq(s, p + Len(sep) + 1, Len(s)), sep)

\* String.prototype.substr(start, length) for start >= 0
substr(s, start, length) ==
    IF start >= Len(s) THEN <<>>
    ELSE SubSeq(s, start + 1, IF start + length > Len(s) THEN Len(s) ELSE start + length)

\* a tagging that gives every line "\n"
eolOfAlwaysLF(j, lineCount, i, chunkCount) == LF

\* helpers.ts:72  j < orig.length - 1 || i === length - 1 ? LF : CR_LF,
\* with the 1-based indices j of lineCount lines and i of chunkCount chunks
eolOf(j, lineCount, i, chunkCount) ==
    IF j < lineCount \/ i = chunkCount THEN LF ELSE CR_LF

\* helpers.ts:70-73  e.split(LF).map(...) for the chunk e of index i
linesOfChunk(e, i, chunkCount) ==
    LET orig == splitOn(e, LF)
    IN  [j \in 1..Len(orig) |->
            [line |-> orig[j], eol |-> eolOf(j, Len(orig), i, chunkCount)]]

\* helpers.ts:67-76  the reduce over the chunks from index i
RECURSIVE reduceChunks(_, _, _)
reduceChunks(chunks, i, arr) ==
    IF i > Len(chunks) THEN arr
    ELSE reduceChunks(chunks, i + 1, arr \o linesOfChunk(chunks[i], i, Len(chunks)))

\* helpers.ts:66-77
splitLinesByEOL(text) == reduceChunks(splitOn(text, CR_LF), 1, <<>>)

\* a terminator length that does not move past the terminator
\* an advance by the length of "\r\n" whatever terminator was found
terminatorLengthTwo(lineOffset, lineOffsetCrlf) == 2

terminatorLengthZero(lineOffset, lineOffsetCrlf) == 0

\* a terminator length that takes "\r\n" for one character
terminatorLengthOne(lineOffset, lineOffsetCrlf) == 1

\* helpers.ts:112  (lineOffset === lineOffsetCrlf ? CR_LF : LF).length
terminatorLength(lineOffset, lineOffsetCrlf) ==
    IF lineOffset = lineOffsetCrlf THEN Len(CR_LF) ELSE Len(LF)

\* helpers.ts:98-113  the for loop from lineIndex with the current
\* lineOffset: the offset reached after line - 1 advances, or -1 when the
\* loop returns false because no terminator is left
RECURSIVE lineStartOffset(_, _, _, _)
lineStartOffset(s, line, lineIndex, lineOffset) ==
    IF ~(lineIndex < line) THEN lineOffset
    ELSE LET lineOffsetCrlf == indexOf(s, CR_LF, lineOffset)
             lineOffsetLf == indexOf(s, LF, lineOffset)
             found == IF lineOffsetCrlf = -1 THEN lineOffsetLf
                      ELSE IF lineOffsetLf = -1 THEN lineOffsetCrlf
                      ELSE IF lineOffsetCrlf < lineOffsetLf THEN lineOffsetCrlf
                      ELSE lineOffsetLf
         IN  IF lineOffsetCrlf = -1 /\ lineOffsetLf = -1 THEN -1
             ELSE lineStartOffset(s, line, lineIndex + 1,
                                  found + terminatorLength(found, lineOffsetCrlf))

\* helpers.ts:95-119
isEOLAtPosition(s, line, column) ==
    LET lineOffset == lineStartOffset(s, line, 1, 0)
    IN  IF lineOffset = -1 THEN FALSE
        ELSE \/ substr(s, lineOffset + column, Len(CR_LF)) = CR_LF
             \/ substr(s, lineOffset + column, Len(LF)) = LF

----------------------------------------------------------------------------
(* formatBytes and formatPercent, helpers.ts:11-31.                        *)
(*                                                                         *)
(* A positive number of bytes is written in base 1024, as a double can be: *)
(* [digits, exp] is digits[1] * 1024^exp + digits[2] * 1024^(exp-1) + ..., *)
(* digits[1] > 0; zero has no digits.  It is an integer when every digit   *)
(* has a non-negative power.  Decimal strings are sequences of code units. *)

\* helpers.ts:11  'B', 'KB', 'MB', 'GB', 'TB', 'PB', 'EB', 'ZB', 'YB'
BYTE_SIZES == << <<66>>, <<75, 66>>, <<77, 66>>, <<71, 66>>, <<84, 66>>,
                 <<80, 66>>, <<69, 66>>, <<90, 66>>, <<89, 66>> >>
\* helpers.ts:13
SIZE_BASE == 1024

\* the string 'undefined' a template literal gives for a missing element
UNDEFINED == <<117, 110, 100, 101, 102, 105, 110, 101, 100>>
SPACE == <<32>>
DOT == <<46>>

\* the base-1024 digits the inputs are made of
ByteDigits == {0, 1, 181, 512, 647, 1023}
\* a number of bytes has at most MaxDigits base-1024 digits
MaxDigits == 3
\* the power of 1024 of the leading digit: below, in and above the table
ExponentRange == -1 .. Len(BYTE_SIZES)
\* decimals is in 0..MaxDecimals
MaxDecimals == 2

ZeroBytes == [digits |-> <<>>, exp |-> 0]

\* 2^50 - 1 = 1125899906842623, the largest integer below 1024^5
JustBelowPB == [digits |-> [i \in 1..5 |-> SIZE_BASE - 1], exp |-> 4]

BytesInputs ==
    {ZeroBytes, JustBelowPB} \cup
    { [digits |-> ds, exp |-> e] :
        ds \in { x \in UNION { [1..k -> ByteDigits] : k \in 1..MaxDigits } : x[1] # 0 },
        e \in ExponentRange }

IsIntegerBytes(b) == b.digits = <<>> \/ b.exp - (Len(b.digits) - 1) >= 0

RECURSIVE pow10(_)
pow10(d) == IF d = 0 THEN 1 ELSE 10 * pow10(d - 1)

\* helpers.ts:22  Math.floor(Math.log(bytes) / Math.log(SIZE_BASE)).
\* Exactly, this is the power of the leading base-1024 digit.  Math.log is
\* implementation-approximated: when the first 50 bits of bytes are ones,
\* ln(bytes) and ln of the next power of 1024 are the same double, and the
\* quotient can come out as the next integer.
floorLogOutcomes(b) ==
    {b.exp} \cup
    (IF Len(b.digits) >= 5 /\ \A i \in 1..5 : b.digits[i] = SIZE_BASE - 1
     THEN {b.exp + 1} ELSE {})

\* f * m for the base-1024 fraction 0.f[1]f[2]... and the integer m:
\* the integer part `carry` and the digits of the fraction that is left
RECURSIVE mulFraction(_, _)
mulFraction(f, m) ==
    IF f = <<>> THEN [carry |-> 0, digits |-> <<>>]
    ELSE LET rest == mulFraction(Tail(f), m)
             prod == Head(f) * m + rest.carry
         IN  [carry |-> prod \div SIZE_BASE,
              digits |-> <<prod % SIZE_BASE>> \o rest.digits]

\* a rounding that drops the fraction
roundedTruncating(int, frac) == int

\* Number.prototype.toFixed picks the integer n nearest to x * 10^d, the
\* larger one of two: int + frac rounded half up
rounded(int, frac) ==
    int + (IF frac # <<>> /\ 2 * frac[1] >= SIZE_BASE THEN 1 ELSE 0)

\* helpers.ts:23,26  value = bytes / Math.pow(SIZE_BASE, exponent), exact in
\* a double, and value.toFixed(d) as the integer value * 10^d rounded
scaledValue(b, exponent, d) ==
    LET shift == exponent - b.exp
        int == IF shift = 0 THEN b.digits[1] ELSE 0
        frac == IF shift = 0 THEN Tail(b.digits)
                ELSE [i \in 1..(shift - 1) |-> 0] \o b.digits
        prod == mulFraction(frac, pow10(d))
    IN  rounded(int * pow10(d) + prod.carry, prod.digits)

\* the decimal digits of a natural number
RECURSIVE decimalString(_)
decimalString(n) ==
    IF n < 10 THEN <<48 + n>> ELSE decimalString(n \div 10) \o <<48 + (n % 10)>>

\* the d decimal digits of n < 10^d, zeros in front
RECURSIVE paddedDigits(_, _)
paddedDigits(n, d) ==
    IF d = 0 THEN <<>> ELSE paddedDigits(n \div 10, d - 1) \o <<48 + (n % 10)>>

\* toFixed(d) of the number scaled / 10^d: exactly d decimals
toFixedString(scaled, d) ==
    decimalString(scaled \div pow10(d))
        \o (IF d = 0 THEN <<>> ELSE DOT \o paddedDigits(scaled % pow10(d), d))

RECURSIVE stripTrailingZeros(_)
stripTrailingZeros(s) ==
    IF s # <<>> /\ s[Len(s)] = 48 THEN stripTrailingZeros(SubSeq(s, 1, Len(s) - 1)) ELSE s

\* helpers.ts:26  `${parseFloat(value.toFixed(decimals))}`: the decimals
\* without their trailing zeros, no point when none is left
parseFloatString(scaled, d) ==
    LET fraction == stripTrailingZeros(paddedDigits(scaled % pow10(d), d))
    IN  decimalString(scaled \div pow10(d))
            \o (IF fraction = <<>> THEN <<>> ELSE DOT \o fraction)

\* helpers.ts:26  BYTE_SIZES[exponent] in a template literal
unitOf(exponent) ==
    IF exponent >= 0 /\ exponent < Len(BYTE_SIZES) THEN BYTE_SIZES[exponent + 1]
    ELSE UNDEFINED

\* helpers.ts:19-27 for the exponent that line 22 computed
formatBytes(b, d, exponent) ==
    IF b.digits = <<>> THEN <<48>> \o SPACE \o BYTE_SIZES[1]
    ELSE parseFloatString(scaledValue(b, exponent, d), d) \o SPACE \o unitOf(exponent)

\* helpers.ts:19  decimals = 2; an argument left out is written -1
DEFAULT_DECIMALS == 2
decimalsOrDefault(d) == IF d = -1 THEN DEFAULT_DECIMALS ELSE d

\* Number.prototype.toFixed(undefined) has no decimals
digitsOrZero(d) == IF d = -1 THEN 0 ELSE d

\* value is in 0..MaxValue, total in 1..MaxTotal or BigTotal
MaxValue == 50
MaxTotal == 200
BigTotal == 10 * MaxTotal
MaxFractionDigits == 2

RECURSIVE IsPowerOfTwo(_)
IsPowerOfTwo(n) == n = 1 \/ (n % 2 = 0 /\ IsPowerOfTwo(n \div 2))

RECURSIVE gcd(_, _)
gcd(a, b) == IF b = 0 THEN a ELSE gcd(b, a % b)

\* the quotient num / den is a double exactly
IsExactDouble(num, den) == IsPowerOfTwo(den \div gcd(num, den))

\* the integer below x * 10^d, whatever the fraction
percentRoundedDown(x, den, d) == {(x * pow10(d)) \div den}

\* helpers.ts:30  (x / den).toFixed(d) for x = 100.0 * value, as the integer
\* the digits spell.  toFixed rounds the double, the larger integer of two
\* that are as near; a quotient that is no double has been rounded by the
\* division before, and a tie of the exact quotient goes either way.
percentRounded(x, den, d) ==
    LET q == (x * pow10(d)) \div den
        r == (x * pow10(d)) % den
    IN  IF 2 * r < den THEN {q}
        ELSE IF 2 * r > den \/ IsExactDouble(x, den) THEN {q + 1}
        ELSE {q, q + 1}

\* helpers.ts:29-31
formatPercent(v, t, d) ==
    { toFixedString(scaled, digitsOrZero(d)) :
        scaled \in percentRounded(100 * v, t, digitsOrZero(d)) }

----------------------------------------------------------------------------
(* The attribution engine, specification 4.3: (N, mapping entries) to the  *)
(* merged ranges and the bytes per source.  A mapping entry is a record    *)
(* [offset, source]; the merger is mergeRanges of helpers.ts.              *)

\* the source of bytes that no mapping attributes
UNMAPPED == "null"
EngineSources == {"a.js", UNMAPPED}

\* the artifact has at most MaxArtifact bytes, the list at most MaxEntries
MaxArtifact == 4
MaxEntries == 3

MappingEntry(offset, source) == [offset |-> offset, source |-> source]

\* step 1 without the test of the order
validBoundsOnly(N, entries) ==
    \A i \in 1..Len(entries) : 0 <= entries[i].offset /\ entries[i].offset < N

\* step 1: 0 <= generatedOffset < N, offsets in non-decreasing order
valid(N, entries) ==
    /\ \A i \in 1..Len(entries) : 0 <= entries[i].offset /\ entries[i].offset < N
    /\ \A i \in 1..(Len(entries) - 1) : entries[i].offset <= entries[i + 1].offset

\* step 2 left out
withoutBoundary(N, entries) == entries

\* step 2: an implicit unmapped entry at offset 0 when the first offset is
\* above 0; an empty list with N > 0 is all unmapped
withBoundary(N, entries) ==
    IF N > 0 /\ (entries = <<>> \/ entries[1].offset > 0)
    THEN <<MappingEntry(0, UNMAPPED)>> \o entries
    ELSE entries

\* steps 3 and 4: entry i gives [offset i, offset i+1 - 1], the last one
\* ends at N - 1; two entries at one offset give no range for the first
RECURSIVE walkEntries(_, _, _)
walkEntries(N, entries, i) ==
    IF i > Len(entries) THEN <<>>
    ELSE LET start == entries[i].offset
             end == IF i = Len(entries) THEN N - 1 ELSE entries[i + 1].offset - 1
         IN  (IF end < start THEN <<>>
              ELSE <<MappingRange(start, end, entries[i].source)>>)
             \o walkEntries(N, entries, i + 1)

\* step 6: end - start + 1 bytes added to the source of each merged range,
\* the sources in the order they are first seen
RECURSIVE aggregate(_, _)
aggregate(merged, acc) ==
    IF merged = <<>> THEN acc
    ELSE LET r == Head(merged)
             size == r.end - r.start + 1
         IN  aggregate(Tail(merged),
                IF \E k \in 1..Len(acc) : acc[k].source = r.source
                THEN [k \in 1..Len(acc) |->
                        IF acc[k].source = r.source
                        THEN [source |-> r.source, bytes |-> acc[k].bytes + size]
                        ELSE acc[k]]
                ELSE Append(acc, [source |-> r.source, bytes |-> size]))

\* steps 2 to 5 for a list that step 1 accepted
attributeRanges(N, entries) ==
    mergeRanges(walkEntries(N, withBoundary(N, entries), 1))

----------------------------------------------------------------------------
(* What mergeRanges and getCommonPathPrefix write.  The heap holds the     *)
(* caller's range objects `objs`, the caller's array `rangesArr` of        *)
(* references to them (indices of objs), the caller's array `pathsArr` of  *)
(* strings, and the array `copy` that getCommonPathPrefix allocates.       *)

\* a list of paths for the two calls has at most MaxFramePaths paths
MaxFramePaths == 2

Heap(rs, ps) ==
    [objs |-> rs, rangesArr |-> [i \in 1..Len(rs) |-> i], pathsArr |-> ps, copy |-> <<>>]

\* the ranges that the caller's array holds now
deref(h) == [i \in 1..Len(h.rangesArr) |-> h.objs[h.rangesArr[i]]]

\* an accumulator that is the object ranges[first] itself: its end is written
assignEndOfObject(h, first, e) == [h EXCEPT !.objs[h.rangesArr[first]].end = e]

\* helpers.ts:132,139,143  start, end and source are locals that the
\* destructuring copied out of ranges[first]; `end = ranges[i].end` writes
\* the local and no object
assignEnd(h, first, e) == h

\* helpers.ts:134-147  the heap after the for loop from index i, the
\* accumulator taken from ranges[first]; the pushes go to a new array of
\* new objects
RECURSIVE mergeLoopEffects(_, _, _)
mergeLoopEffects(h, i, first) ==
    IF i > Len(h.rangesArr) THEN h
    ELSE IF isSourceMatch(deref(h), i) /\ isConsecutive(deref(h), i)
         THEN mergeLoopEffects(assignEnd(h, first, deref(h)[i].end), i + 1, first)
         ELSE mergeLoopEffects(h, i + 1, i)

\* helpers.ts:124-150  the heap after mergeRanges(ranges)
mergeRangesEffects(h) ==
    IF Len(h.rangesArr) <= 1 THEN h ELSE mergeLoopEffects(h, 2, 1)

\* A = paths.sort(): no copy, A is the caller's array
concatSameArray(h) == [heap |-> h, ref |-> "paths"]

\* helpers.ts:43  paths.concat() allocates a new array with the elements
concat(h) == [heap |-> [h EXCEPT !.copy = h.pathsArr], ref |-> "copy"]

\* helpers.ts:43  Array.prototype.sort sorts the array it is called on
sortInPlace(h, ref) ==
    IF ref = "paths" THEN [h EXCEPT !.pathsArr = sortPaths(@)]
    ELSE [h EXCEPT !.copy = sortPaths(@)]

\* helpers.ts:40-53  the heap after getCommonPathPrefix(paths); the copy is
\* garbage when the call returns
getCommonPathPrefixEffects(h) ==
    IF tooFewPaths(h.pathsArr) THEN h
    ELSE LET A == concat(h)
         IN  [sortInPlace(A.heap, A.ref) EXCEPT !.copy = <<>>]

\* the arguments of the call made in between
BetweenRanges == {<<>>, <<MappingRange(0, 1, "a.js"), MappingRange(2, 3, "a.js")>>}
BetweenPaths == {<<>>, << <<97, 47, 97>>, <<97, 47>> >>}

----------------------------------------------------------------------------
(* The module loader of the bundle, part_000:2-168: define (__d) and       *)
(* metroRequire (__r) on the registry `modules`.  A factory is given by    *)
(* what it does: it requires the module `dep` (0: none), inside a          *)
(* try/catch or not, and then returns or throws.  The exports object of    *)
(* module m is written m, undefined is written 0.  No segment is           *)
(* registered and the host has no nativeRequire.                           *)

ModuleIds == {1, 2}

\* a factory is invoked at most MaxInvocations times
MaxInvocations == 2

Factories ==
    { f \in [dep : ModuleIds \cup {0}, catches : BOOLEAN, throws : BOOLEAN] :
        f.dep = 0 => ~f.catches }

UNDEF == 0

NoError == [kind |-> "none", origin |-> 0]
\* the error that the factory of module m throws
FactoryError(m) == [kind |-> "factory", origin |-> m]
\* part_000:164-167
unknownModuleError(m) == [kind |-> "unknown", origin |-> m]
\* calling module.factory when it is undefined
NotAFunction(m) == [kind |-> "type", origin |-> m]

NoFactory == [dep |-> 0, catches |-> FALSE, throws |-> FALSE]

\* modules[moduleId] is undefined
Absent ==
    [defined |-> FALSE, hasFactory |-> FALSE, factory |-> NoFactory,
     hasError |-> FALSE, error |-> NoError, isInitialized |-> FALSE,
     exports |-> UNDEF]

\* part_000:21-31  the record that define stores
NewModule(m, f) ==
    [defined |-> TRUE, hasFactory |-> TRUE, factory |-> f,
     hasError |-> FALSE, error |-> NoError, isInitialized |-> FALSE,
     exports |-> m]

\* a test that never finds the module
neverDefined(mods, m) == FALSE

\* part_000:18  modules[moduleId] != null
alreadyDefined(mods, m) == mods[m].defined

\* part_000:17-33
define(mods, f, m) ==
    IF alreadyDefined(mods, m) THEN mods ELSE [mods EXCEPT ![m] = NewModule(m, f)]

\* part_000:37  module && module.isInitialized
isLoaded(mods, m) == mods[m].defined /\ mods[m].isInitialized

\* part_000:77  !inGuard && global.ErrorUtils
takesGuard(guard, utils) == ~guard /\ utils

\* part_000:155-160  the catch block of loadModuleImplementation
markFailed(mods, m, e) ==
    [mods EXCEPT ![m].hasError = TRUE, ![m].error = e,
                 ![m].isInitialized = FALSE, ![m].exports = UNDEF]

\* a load in progress: loadModuleImplementation(id, module) called by
\* guardedLoadModule with the guard taken or not, from a factory (nested)
\* or from the host; hadError and storedError are the module's when the
\* call was made, ran tells that the call invoked the factory, error is
\* what the load is throwing
Frame(m, guarded, nested, mods) ==
    [id |-> m, pc |-> "start", guarded |-> guarded, nested |-> nested,
     hadError |-> mods[m].hasError, storedError |-> mods[m].error,
     ran |-> FALSE, error |-> NoError]

\* what is kept of a call of define
DefineCall(m, existed, changed) ==
    [op |-> "define", id |-> m, nested |-> FALSE, guarded |-> FALSE,
     existed |-> existed, changedRegistry |-> changed,
     wasInitialized |-> FALSE, hadError |-> FALSE, storedError |-> NoError,
     ran |-> FALSE, outcome |-> "returned", value |-> UNDEF, error |-> NoError,
     reported |-> NoError]

\* what is kept of a call of metroRequire
RequireCall(m, nested, guarded, wasInitialized, hadError, storedError, ran, outcome, val, error, reported) ==
    [op |-> "require", id |-> m, nested |-> nested, guarded |-> guarded,
     existed |-> FALSE, changedRegistry |-> FALSE,
     wasInitialized |-> wasInitialized, hadError |-> hadError,
     storedError |-> storedError, ran |-> ran, outcome |-> outcome,
     value |-> val, error |-> error, reported |-> reported]

\* part_000:37  metroRequire returns the exports of a loaded module
ImmediateReturn(m, nested, mods) ==
    RequireCall(m, nested, FALSE, TRUE, FALSE, NoError, FALSE,
                "returned", mods[m].exports, NoError, NoError)

NoCallYet ==
    [op |-> "none", id |-> 0, nested |-> FALSE, guarded |-> FALSE,
     existed |-> FALSE, changedRegistry |-> FALSE,
     wasInitialized |-> FALSE, hadError |-> FALSE, storedError |-> NoError,
     ran |-> FALSE, outcome |-> "returned", value |-> UNDEF, error |-> NoError,
     reported |-> NoError]

\* the top of the stack replaced
ReplaceTop(st, frame) == [st EXCEPT ![Len(st)] = frame]

----------------------------------------------------------------------------
(* The calls.  Each specification draws the arguments of one helper from   *)
(* the bounded inputs and applies it; the other helpers stay idle.         *)

MergeIdle ==
    /\ ranges = <<>> /\ mergedRanges = NoCall /\ remergedRanges = NoCall
    /\ mergePc = "idle"

GocIdle ==
    /\ subString = <<>> /\ string = <<>> /\ count = 0 /\ position = 0
    /\ gocPc = "idle"

PrefixIdle ==
    /\ paths = <<>> /\ commonPrefix = <<>> /\ prefixPc = "idle"

EolIdle ==
    /\ content = <<>> /\ splitLines = <<>> /\ splitPc = "idle"
    /\ eolLine = 1 /\ eolColumn = 0 /\ isEOL = FALSE /\ eolPc = "idle"

FmtIdle ==
    /\ bytes = ZeroBytes /\ decimals = 0 /\ formattedBytes = <<>> /\ bytesPc = "idle"
    /\ value = 0 /\ total = 1 /\ fractionDigits = 0
    /\ formattedPercent = <<>> /\ percentPc = "idle"

EngineIdle ==
    /\ artifactLength = 0 /\ mappingEntries = <<>>
    /\ attribution = NoCall /\ sourceAggregate = <<>> /\ enginePc = "idle"

FrameIdle ==
    /\ frameHelper = "mergeRanges" /\ callerRanges = <<>> /\ callerPaths = <<>>
    /\ heap = Heap(<<>>, <<>>)
    /\ firstResult = NoCall /\ secondResult = NoCall
    /\ betweenCalls = 0 /\ framePc = "idle"

LoaderIdle ==
    /\ modules = [m \in ModuleIds |-> Absent]
    /\ inGuard = FALSE /\ hasErrorUtils = FALSE /\ handlerThrows = FALSE
    /\ stack = <<>>
    /\ invocations = [m \in ModuleIds |-> 0]
    /\ lastCall = NoCallYet

\* ---- mergeRanges
InitMerge ==
    /\ ranges \in RangeInputs
    /\ mergedRanges = NoCall /\ remergedRanges = NoCall
    /\ mergePc = "call"
    /\ GocIdle /\ PrefixIdle /\ EolIdle /\ FmtIdle /\ EngineIdle /\ FrameIdle /\ LoaderIdle

\* mergeRanges(ranges); a TypeError ends the caller's expression
CallMergeRanges ==
    /\ mergePc = "call"
    /\ mergedRanges' = mergeRanges(ranges)
    /\ mergePc' = IF mergedRanges'.threw THEN "raised" ELSE "merged"
    /\ UNCHANGED <<ranges, remergedRanges>>
    /\ UNCHANGED <<gocVars, prefixVars, eolVars, fmtVars, engineVars, frameVars, loaderVars>>

\* mergeRanges applied to the array the first call returned
CallMergeRangesAgain ==
    /\ mergePc = "merged"
    /\ remergedRanges' = mergeRanges(mergedRanges.value)
    /\ mergePc' = IF remergedRanges'.threw THEN "raised" ELSE "remerged"
    /\ UNCHANGED <<ranges, mergedRanges>>
    /\ UNCHANGED <<gocVars, prefixVars, eolVars, fmtVars, engineVars, frameVars, loaderVars>>

NextMerge == CallMergeRanges \/ CallMergeRangesAgain

SpecMerge == InitMerge /\ [][NextMerge]_vars

\* ---- getOccurrencesCount
InitCount ==
    /\ subString \in StringsUpTo(SearchAlphabet, MaxSubLen)
    /\ string \in StringsUpTo(SearchAlphabet, MaxStrLen)
    /\ count = 0 /\ position = 0
    /\ gocPc = "call"
    /\ MergeIdle /\ PrefixIdle /\ EolIdle /\ FmtIdle /\ EngineIdle /\ FrameIdle /\ LoaderIdle

\* helpers.ts:83-85
GocEnter ==
    /\ gocPc = "call"
    /\ count' = 0
    /\ position' = indexOf(string, subString, 0)
    /\ gocPc' = "loop"
    /\ UNCHANGED <<subString, string>>
    /\ UNCHANGED <<mergeVars, prefixVars, eolVars, fmtVars, engineVars, frameVars, loaderVars>>

\* helpers.ts:87-90  one iteration of the while loop
GocIterate ==
    /\ gocPc = "loop"
    /\ position # -1
    /\ count' = IF count < MaxCount THEN count + 1 ELSE count
    /\ position' = indexOf(string, subString, nextSearchFrom(position, Len(subString)))
    /\ UNCHANGED <<subString, string, gocPc>>
    /\ UNCHANGED <<mergeVars, prefixVars, eolVars, fmtVars, engineVars, frameVars, loaderVars>>

\* helpers.ts:87,92  the loop condition fails: return count
GocReturn ==
    /\ gocPc = "loop"
    /\ position = -1
    /\ gocPc' = "done"
    /\ UNCHANGED <<subString, string, count, position>>
    /\ UNCHANGED <<mergeVars, prefixVars, eolVars, fmtVars, engineVars, frameVars, loaderVars>>

NextCount == GocEnter \/ GocIterate \/ GocReturn

SpecCount == InitCount /\ [][NextCount]_vars

\* the call is synchronous: a statement that can run does run
FairSpecCount == SpecCount /\ WF_vars(GocEnter) /\ WF_vars(GocIterate) /\ WF_vars(GocReturn)

\* ---- getCommonPathPrefix
InitPrefix ==
    /\ \E n \in 0..MaxPaths : paths \in [1..n -> PathStrings]
    /\ commonPrefix = <<>>
    /\ prefixPc = "call"
    /\ MergeIdle /\ GocIdle /\ EolIdle /\ FmtIdle /\ EngineIdle /\ FrameIdle /\ LoaderIdle

CallGetCommonPathPrefix ==
    /\ prefixPc = "call"
    /\ commonPrefix' = getCommonPathPrefix(paths)
    /\ prefixPc' = "done"
    /\ UNCHANGED paths
    /\ UNCHANGED <<mergeVars, gocVars, eolVars, fmtVars, engineVars, frameVars, loaderVars>>

NextPrefix == CallGetCommonPathPrefix

SpecPrefix == InitPrefix /\ [][NextPrefix]_vars

\* ---- splitLinesByEOL and isEOLAtPosition, called on one text
InitEol ==
    /\ content \in StringsUpTo(TextAlphabet, MaxTextLen)
    /\ eolLine \in 1..MaxLine
    /\ eolColumn \in 0..MaxColumn
    /\ splitLines = <<>> /\ splitPc = "call"
    /\ isEOL = FALSE /\ eolPc = "call"
    /\ MergeIdle /\ GocIdle /\ PrefixIdle /\ FmtIdle /\ EngineIdle /\ FrameIdle /\ LoaderIdle

CallSplitLinesByEOL ==
    /\ splitPc = "call"
    /\ splitLines' = splitLinesByEOL(content)
    /\ splitPc' = "done"
    /\ UNCHANGED <<content, eolLine, eolColumn, isEOL, eolPc>>
    /\ UNCHANGED <<mergeVars, gocVars, prefixVars, fmtVars, engineVars, frameVars, loaderVars>>

CallIsEOLAtPosition ==
    /\ eolPc = "call"
    /\ isEOL' = isEOLAtPosition(content, eolLine, eolColumn)
    /\ eolPc' = "done"
    /\ UNCHANGED <<content, eolLine, eolColumn, splitLines, splitPc>>
    /\ UNCHANGED <<mergeVars, gocVars, prefixVars, fmtVars, engineVars, frameVars, loaderVars>>

NextEol == CallSplitLinesByEOL \/ CallIsEOLAtPosition

SpecEol == InitEol /\ [][NextEol]_vars

\* ---- formatBytes
InitFormatBytes ==
    /\ bytes \in BytesInputs
    /\ decimals \in -1 .. MaxDecimals
    /\ formattedBytes = <<>> /\ bytesPc = "call"
    /\ value = 0 /\ total = 1 /\ fractionDigits = 0
    /\ formattedPercent = <<>> /\ percentPc = "idle"
    /\ MergeIdle /\ GocIdle /\ PrefixIdle /\ EolIdle /\ EngineIdle /\ FrameIdle /\ LoaderIdle

\* helpers.ts:19-27
CallFormatBytes ==
    /\ bytesPc = "call"
    /\ \E exponent \in (IF bytes = ZeroBytes THEN {0} ELSE floorLogOutcomes(bytes)) :
          formattedBytes' = formatBytes(bytes, decimalsOrDefault(decimals), exponent)
    /\ bytesPc' = "done"
    /\ UNCHANGED <<bytes, decimals, value, total, fractionDigits,
                   formattedPercent, percentPc>>
    /\ UNCHANGED <<mergeVars, gocVars, prefixVars, eolVars, engineVars, frameVars, loaderVars>>

NextFormatBytes == CallFormatBytes

SpecFormatBytes == InitFormatBytes /\ [][NextFormatBytes]_vars

\* ---- formatPercent
InitFormatPercent ==
    /\ value \in 0..MaxValue
    /\ total \in (1..MaxTotal) \cup {BigTotal}
    /\ fractionDigits \in -1 .. MaxFractionDigits
    /\ formattedPercent = <<>> /\ percentPc = "call"
    /\ bytes = ZeroBytes /\ decimals = 0 /\ formattedBytes = <<>> /\ bytesPc = "idle"
    /\ MergeIdle /\ GocIdle /\ PrefixIdle /\ EolIdle /\ EngineIdle /\ FrameIdle /\ LoaderIdle

\* helpers.ts:29-31
CallFormatPercent ==
    /\ percentPc = "call"
    /\ formattedPercent' \in formatPercent(value, total, fractionDigits)
    /\ percentPc' = "done"
    /\ UNCHANGED <<value, total, fractionDigits,
                   bytes, decimals, formattedBytes, bytesPc>>
    /\ UNCHANGED <<mergeVars, gocVars, prefixVars, eolVars, engineVars, frameVars, loaderVars>>

NextFormatPercent == CallFormatPercent

SpecFormatPercent == InitFormatPercent /\ [][NextFormatPercent]_vars

\* ---- the attribution engine
InitEngine ==
    /\ artifactLength \in 0..MaxArtifact
    /\ \E n \in 0..MaxEntries :
          mappingEntries \in [1..n -> [offset : -1 .. MaxArtifact, source : EngineSources]]
    /\ attribution = NoCall /\ sourceAggregate = <<>>
    /\ enginePc = "call"
    /\ MergeIdle /\ GocIdle /\ PrefixIdle /\ EolIdle /\ FmtIdle /\ FrameIdle /\ LoaderIdle

\* step 1 fails: MalformedMappingError
RejectMalformedMapping ==
    /\ enginePc = "call"
    /\ ~valid(artifactLength, mappingEntries)
    /\ attribution' = Threw
    /\ enginePc' = "malformed"
    /\ UNCHANGED <<artifactLength, mappingEntries, sourceAggregate>>
    /\ UNCHANGED <<mergeVars, gocVars, prefixVars, eolVars, fmtVars, frameVars, loaderVars>>

\* steps 2 to 6; an exception of the merger ends the run
Attribute ==
    /\ enginePc = "call"
    /\ valid(artifactLength, mappingEntries)
    /\ attribution' = attributeRanges(artifactLength, mappingEntries)
    /\ sourceAggregate' = IF attribution'.threw THEN <<>>
                          ELSE aggregate(attribution'.value, <<>>)
    /\ enginePc' = IF attribution'.threw THEN "raised" ELSE "done"
    /\ UNCHANGED <<artifactLength, mappingEntries>>
    /\ UNCHANGED <<mergeVars, gocVars, prefixVars, eolVars, fmtVars, frameVars, loaderVars>>

NextEngine == RejectMalformedMapping \/ Attribute

SpecEngine == InitEngine /\ [][NextEngine]_vars

\* ---- two calls of one helper on the same array, the other helper between
InitFrame ==
    /\ \/ /\ frameHelper = "mergeRanges"
          /\ callerRanges \in RangeInputs
          /\ callerPaths \in BetweenPaths
       \/ /\ frameHelper = "getCommonPathPrefix"
          /\ callerRanges \in BetweenRanges
          /\ \E n \in 0..MaxFramePaths : callerPaths \in [1..n -> PathStrings]
    /\ heap = Heap(callerRanges, callerPaths)
    /\ firstResult = NoCall /\ secondResult = NoCall
    /\ betweenCalls = 0 /\ framePc = "first"
    /\ MergeIdle /\ GocIdle /\ PrefixIdle /\ EolIdle /\ FmtIdle /\ EngineIdle /\ LoaderIdle

\* what a call of the helper returns or raises, and the heap it leaves
resultOf(helper, h) ==
    IF helper = "mergeRanges" THEN mergeRanges(deref(h))
    ELSE Returned(getCommonPathPrefix(h.pathsArr))

effectsOf(helper, h) ==
    IF helper = "mergeRanges" THEN mergeRangesEffects(h)
    ELSE getCommonPathPrefixEffects(h)

otherHelper(helper) ==
    IF helper = "mergeRanges" THEN "getCommonPathPrefix" ELSE "mergeRanges"

FrameFirstCall ==
    /\ framePc = "first"
    /\ firstResult' = resultOf(frameHelper, heap)
    /\ heap' = effectsOf(frameHelper, heap)
    /\ framePc' = "between"
    /\ UNCHANGED <<frameHelper, callerRanges, callerPaths, secondResult, betweenCalls>>
    /\ UNCHANGED <<mergeVars, gocVars, prefixVars, eolVars, fmtVars, engineVars, loaderVars>>

\* the other helper is called on the caller's other array
FrameCallBetween ==
    /\ framePc = "between"
    /\ betweenCalls = 0
    /\ heap' = effectsOf(otherHelper(frameHelper), heap)
    /\ betweenCalls' = 1
    /\ UNCHANGED <<frameHelper, callerRanges, callerPaths, firstResult,
                   secondResult, framePc>>
    /\ UNCHANGED <<mergeVars, gocVars, prefixVars, eolVars, fmtVars, engineVars, loaderVars>>

FrameSecondCall ==
    /\ framePc = "between"
    /\ secondResult' = resultOf(frameHelper, heap)
    /\ heap' = effectsOf(frameHelper, heap)
    /\ framePc' = "done"
    /\ UNCHANGED <<frameHelper, callerRanges, callerPaths, firstResult, betweenCalls>>
    /\ UNCHANGED <<mergeVars, gocVars, prefixVars, eolVars, fmtVars, engineVars, loaderVars>>

NextFrame == FrameFirstCall \/ FrameCallBetween \/ FrameSecondCall

SpecFrame == InitFrame /\ [][NextFrame]_vars

\* ---- the module loader
\* part_000:8,75  modules = clear(), inGuard = false; the host and its
\* error handler are as they are
InitLoader ==
    /\ modules = [m \in ModuleIds |-> Absent]
    /\ inGuard = FALSE
    /\ hasErrorUtils \in BOOLEAN
    /\ handlerThrows \in BOOLEAN
    /\ stack = <<>>
    /\ invocations = [m \in ModuleIds |-> 0]
    /\ lastCall = NoCallYet
    /\ MergeIdle /\ GocIdle /\ PrefixIdle /\ EolIdle /\ FmtIdle /\ EngineIdle
    /\ FrameIdle

\* part_000:17-33  the host calls __d(factory, moduleId)
Define ==
    /\ stack = <<>>
    /\ \E m \in ModuleIds, f \in Factories :
          /\ modules' = define(modules, f, m)
          /\ lastCall' = DefineCall(m, modules[m].defined, modules' # modules)
    /\ UNCHANGED <<inGuard, hasErrorUtils, handlerThrows, stack, invocations>>
    /\ UNCHANGED <<mergeVars, gocVars, prefixVars, eolVars, fmtVars, engineVars, frameVars>>

\* part_000:34-38,76-90  the host calls __r(moduleId): the exports of a
\* loaded module, or guardedLoadModule up to its call of
\* loadModuleImplementation
Require ==
    /\ stack = <<>>
    /\ \E m \in ModuleIds :
          IF isLoaded(modules, m)
          THEN /\ lastCall' = ImmediateReturn(m, FALSE, modules)
               /\ UNCHANGED <<stack, inGuard>>
          ELSE /\ stack' = <<Frame(m, takesGuard(inGuard, hasErrorUtils), FALSE, modules)>>
               /\ inGuard' = (inGuard \/ takesGuard(inGuard, hasErrorUtils))
               /\ UNCHANGED lastCall
    /\ UNCHANGED <<modules, hasErrorUtils, handlerThrows, invocations>>
    /\ UNCHANGED <<mergeVars, gocVars, prefixVars, eolVars, fmtVars, engineVars, frameVars>>

\* part_000:118-152  loadModuleImplementation up to the first thing the
\* factory does: an unknown module and a module with hasError throw;
\* otherwise isInitialized is set and the factory is invoked, and its
\* require of dep returns at once or starts a nested load
EnterLoad ==
    /\ stack # <<>>
    /\ LET top == stack[Len(stack)]
           m == top.id
           marked == [modules EXCEPT ![m].isInitialized = TRUE]
           f == modules[m].factory
       IN  /\ top.pc = "start"
           /\ IF ~modules[m].defined
              THEN /\ stack' = ReplaceTop(stack, [top EXCEPT !.pc = "throwing",
                                                             !.error = unknownModuleError(m)])
                   /\ UNCHANGED <<modules, invocations, inGuard, lastCall>>
              ELSE IF modules[m].hasError
              THEN /\ stack' = ReplaceTop(stack, [top EXCEPT !.pc = "throwing",
                                                             !.error = modules[m].error])
                   /\ UNCHANGED <<modules, invocations, inGuard, lastCall>>
              ELSE IF ~modules[m].hasFactory
              THEN /\ modules' = markFailed(marked, m, NotAFunction(m))
                   /\ stack' = ReplaceTop(stack, [top EXCEPT !.pc = "throwing",
                                                             !.error = NotAFunction(m)])
                   /\ UNCHANGED <<invocations, inGuard, lastCall>>
              ELSE /\ invocations[m] < MaxInvocations
                   /\ modules' = marked
                   /\ invocations' = [invocations EXCEPT ![m] = @ + 1]
                   /\ IF f.dep = 0
                      THEN /\ stack' = ReplaceTop(stack, [top EXCEPT !.pc = "body", !.ran = TRUE])
                           /\ UNCHANGED <<inGuard, lastCall>>
                      ELSE IF isLoaded(marked, f.dep)
                      THEN /\ stack' = ReplaceTop(stack, [top EXCEPT !.pc = "body", !.ran = TRUE])
                           /\ lastCall' = ImmediateReturn(f.dep, TRUE, marked)
                           /\ UNCHANGED inGuard
                      ELSE /\ stack' = Append(
                                  ReplaceTop(stack, [top EXCEPT !.pc = "waiting", !.ran = TRUE]),
                                  Frame(f.dep, takesGuard(inGuard, hasErrorUtils), TRUE, marked))
                           /\ inGuard' = (inGuard \/ takesGuard(inGuard, hasErrorUtils))
                           /\ UNCHANGED lastCall
    /\ UNCHANGED <<hasErrorUtils, handlerThrows>>
    /\ UNCHANGED <<mergeVars, gocVars, prefixVars, eolVars, fmtVars, engineVars, frameVars>>

\* part_000:148-160  the factory ends: it returns, and factory and
\* dependencyMap are cleared, or it throws into the catch block
FactoryEnd ==
    /\ stack # <<>>
    /\ LET top == stack[Len(stack)]
           m == top.id
       IN  /\ top.pc = "body"
           /\ IF modules[m].factory.throws
              THEN /\ modules' = markFailed(modules, m, FactoryError(m))
                   /\ stack' = ReplaceTop(stack, [top EXCEPT !.pc = "throwing",
                                                             !.error = FactoryError(m)])
              ELSE /\ modules' = [modules EXCEPT ![m].hasFactory = FALSE,
                                                 ![m].factory = NoFactory]
                   /\ stack' = ReplaceTop(stack, [top EXCEPT !.pc = "returning"])
    /\ UNCHANGED <<inGuard, hasErrorUtils, handlerThrows, invocations, lastCall>>
    /\ UNCHANGED <<mergeVars, gocVars, prefixVars, eolVars, fmtVars, engineVars, frameVars>>

\* part_000:79-89,148-160  a load returns or throws to guardedLoadModule:
\* with the guard taken the error goes to reportFatalError, and undefined
\* is returned when the handler returns; inGuard is reset unless the
\* handler throws.  The caller is the host, or a factory that goes on,
\* catches the error, or throws it into the catch block of its own load.
Unwind ==
    /\ stack # <<>>
    /\ LET top == stack[Len(stack)]
           throwing == top.pc = "throwing"
           swallowed == top.guarded /\ throwing /\ ~handlerThrows
           threw == throwing /\ ~swallowed
           val == IF throwing THEN UNDEF ELSE modules[top.id].exports
           rest == SubSeq(stack, 1, Len(stack) - 1)
       IN  /\ top.pc \in {"returning", "throwing"}
           /\ inGuard' = IF top.guarded /\ ~threw THEN FALSE ELSE inGuard
           /\ lastCall' = RequireCall(top.id, top.nested, top.guarded, FALSE,
                              top.hadError, top.storedError, top.ran,
                              IF threw THEN "threw" ELSE "returned", val,
                              IF threw THEN top.error ELSE NoError,
                              IF swallowed THEN top.error ELSE NoError)
           /\ IF rest = <<>>
              THEN stack' = <<>> /\ UNCHANGED modules
              ELSE LET parent == rest[Len(rest)]
                   IN  IF threw /\ ~modules[parent.id].factory.catches
                       THEN /\ modules' = markFailed(modules, parent.id, top.error)
                            /\ stack' = ReplaceTop(rest, [parent EXCEPT !.pc = "throwing",
                                                                        !.error = top.error])
                       ELSE /\ stack' = ReplaceTop(rest, [parent EXCEPT !.pc = "body"])
                            /\ UNCHANGED modules
    /\ UNCHANGED <<hasErrorUtils, handlerThrows, invocations>>
    /\ UNCHANGED <<mergeVars, gocVars, prefixVars, eolVars, fmtVars, engineVars, frameVars>>

NextLoader == Define \/ Require \/ EnterLoad \/ FactoryEnd \/ Unwind

SpecLoader == InitLoader /\ [][NextLoader]_vars

\* ---- any one of the helpers
Init == InitMerge \/ InitCount \/ InitPrefix \/ InitEol \/ InitFormatBytes
            \/ InitFormatPercent \/ InitEngine \/ InitFrame
            \/ InitLoader

Next == NextMerge \/ NextCount \/ NextPrefix \/ NextEol \/ NextFormatBytes
            \/ NextFormatPercent \/ NextEngine \/ NextFrame
            \/ NextLoader

Spec == Init /\ [][Next]_vars

----------------------------------------------------------------------------
(* Properties of mergeRanges (checked under SpecMerge) *)

Interval(r) == r.start .. r.end

\* the offsets the ranges of rs cover
Covered(rs) == UNION { Interval(rs[i]) : i \in 1..Len(rs) }

NonOverlapping(rs) ==
    \A i, j \in 1..Len(rs) : i # j => Interval(rs[i]) \cap Interval(rs[j]) = {}

\* ordered, every range non-empty and starting right after the one before
\* it, the first at 0 and the last ending at n - 1
ContiguousCover(rs, n) ==
    /\ Len(rs) >= 1
    /\ rs[1].start = 0
    /\ rs[Len(rs)].end = n - 1
    /\ \A i \in 1..Len(rs) : rs[i].start <= rs[i].end
    /\ \A i \in 1..(Len(rs) - 1) : rs[i + 1].start = rs[i].end + 1

\* the artifact length N of an input: one past the last offset
LengthOf(rs) == IF rs = <<>> THEN 0 ELSE rs[Len(rs)].end + 1

RECURSIVE SumSeq(_)
SumSeq(s) == IF s = <<>> THEN 0 ELSE Head(s) + SumSeq(Tail(s))

Bytes(rs) == SumSeq([i \in 1..Len(rs) |-> rs[i].end - rs[i].start + 1])

BytesOf(rs, src) ==
    SumSeq([i \in 1..Len(rs) |->
              IF rs[i].source = src THEN rs[i].end - rs[i].start + 1 ELSE 0])

MergeReturnedOrRaised == mergePc \in {"merged", "remerged", "raised"}

\* C1: for every N >= 1 and every ordered contiguous input covering exactly
\* 0..N-1, mergeRanges returns ranges that are again ordered, pairwise
\* non-overlapping and contiguous, start at 0, end at N-1 and cover exactly
\* 0..N-1.
C1_CoverageInvariant ==
    (MergeReturnedOrRaised /\ ContiguousCover(ranges, LengthOf(ranges)))
        => /\ ~mergedRanges.threw
           /\ ContiguousCover(mergedRanges.value, LengthOf(ranges))
           /\ NonOverlapping(mergedRanges.value)
           /\ Covered(mergedRanges.value) = 0..(LengthOf(ranges) - 1)

\* C1 witness: a contiguous input of three ranges was merged into fewer
C1_Witness ==
    /\ mergePc = "merged"
    /\ Len(ranges) = 3
    /\ ContiguousCover(ranges, LengthOf(ranges))
    /\ Len(mergedRanges.value) = 2

\* C2: for every ordered contiguous input covering 0..N-1 (the empty input
\* for N = 0), the bytes of the ranges mergeRanges returns sum to N, and for
\* every source the bytes of the output ranges of that source equal the
\* bytes of the input ranges of that source.
C2_AggregateConservation ==
    (MergeReturnedOrRaised
       /\ (ranges = <<>> \/ ContiguousCover(ranges, LengthOf(ranges))))
        => /\ ~mergedRanges.threw
           /\ Bytes(mergedRanges.value) = LengthOf(ranges)
           /\ \A src \in Sources :
                 BytesOf(mergedRanges.value, src) = BytesOf(ranges, src)

\* C3: for every ordered range sequence x, mergeRanges(mergeRanges(x)) has
\* a value, and it is element-wise equal to mergeRanges(x).
C3_MergeIdempotence ==
    /\ mergePc # "raised"
    /\ mergePc = "remerged" => remergedRanges.value = mergedRanges.value

\* C4: an input of length 0 or 1 is returned as it is, without an error;
\* the empty range list yields the empty range list.
C4_DegenerateInputReturned ==
    (MergeReturnedOrRaised /\ Len(ranges) <= 1)
        => (~mergedRanges.threw /\ mergedRanges.value = ranges)

\* the left fold of the specification: the running accumulator acc is
\* extended when r has its source and starts right after ITS end,
\* otherwise pushed and restarted from r; the last accumulator is pushed
RECURSIVE ReferenceFold(_, _, _)
ReferenceFold(rest, acc, out) ==
    IF rest = <<>> THEN out \o <<acc>>
    ELSE LET r == Head(rest)
         IN  IF r.source = acc.source /\ r.start - acc.end = 1
             THEN ReferenceFold(Tail(rest), MappingRange(acc.start, r.end, acc.source), out)
             ELSE ReferenceFold(Tail(rest), r, out \o <<acc>>)

\* C20: for every non-empty ordered range sequence, contiguous or not,
\* mergeRanges returns exactly what the reference left fold returns: the
\* comparison with the predecessor ranges[i-1] never differs from the
\* comparison with the accumulator.
C20_MatchesReferenceFold ==
    (MergeReturnedOrRaised /\ ranges # <<>>)
        => /\ ~mergedRanges.threw
           /\ mergedRanges.value = ReferenceFold(Tail(ranges), Head(ranges), <<>>)

\* C20 witness: three ranges of one source, the first two adjacent and
\* merged, the third after a gap and kept apart
C20_Witness ==
    /\ mergePc = "merged"
    /\ Len(ranges) = 3
    /\ \A i \in 1..3 : ranges[i].source = "a.js"
    /\ ranges[2].start = ranges[1].end + 1
    /\ ranges[3].start > ranges[2].end + 1
    /\ Len(mergedRanges.value) = 2

\* the input range r lies in the output range o
Within(r, o) == o.source = r.source /\ o.start <= r.start /\ r.end <= o.end

\* C21: two input ranges lie in the same output range only if every range
\* between them has the source of its predecessor and starts right after
\* its end (every input range lies in some output range); and no two
\* consecutive output ranges have the same source and are byte-adjacent.
C21_AdjacencyBasedMaximalMerge ==
    (MergeReturnedOrRaised /\ ~mergedRanges.threw) =>
        LET out == mergedRanges.value
        IN  /\ \A i \in 1..Len(ranges) : \E o \in 1..Len(out) : Within(ranges[i], out[o])
            /\ \A i, j \in 1..Len(ranges) :
                  (/\ i < j
                   /\ \E o \in 1..Len(out) :
                         Within(ranges[i], out[o]) /\ Within(ranges[j], out[o]))
                  => \A k \in (i + 1)..j :
                        /\ ranges[k].source = ranges[k - 1].source
                        /\ ranges[k].start - ranges[k - 1].end = 1
            /\ \A o \in 1..(Len(out) - 1) :
                  ~(/\ out[o + 1].source = out[o].source
                    /\ out[o + 1].start - out[o].end = 1)

\* C21 witness: a source reappears right after one range of another
\* source, all three byte-adjacent, and the output has three ranges
C21_Witness ==
    /\ mergePc = "merged"
    /\ Len(ranges) = 3
    /\ ranges[1].source = ranges[3].source
    /\ ranges[2].source # ranges[1].source
    /\ ranges[2].start = ranges[1].end + 1
    /\ ranges[3].start = ranges[2].end + 1
    /\ Len(mergedRanges.value) = 3

----------------------------------------------------------------------------
(* Properties of getOccurrencesCount (SpecCount, FairSpecCount) *)

\* C5: getOccurrencesCount terminates for every pair of strings, and for
\* the empty subString what it returns is 0.
C5_TerminatesAndEmptyGivesZero ==
    <>(gocPc = "done" /\ (subString = <<>> => count = 0))

\* the greedy scan, character by character: at a hit, count it and resume
\* Len(sub) characters later; otherwise move one character on
RECURSIVE GreedyScan(_, _, _)
GreedyScan(sub, s, p) ==
    IF p + Len(sub) > Len(s) THEN 0
    ELSE IF SubSeq(s, p + 1, p + Len(sub)) = sub
         THEN 1 + GreedyScan(sub, s, p + Len(sub))
         ELSE GreedyScan(sub, s, p + 1)

\* C6: for every non-empty subString, getOccurrencesCount returns the number
\* of non-overlapping occurrences a greedy left-to-right scan finds, the
\* scan resuming subString.length characters after the start of each hit.
C6_GreedyNonOverlappingCount ==
    (gocPc = "done" /\ subString # <<>>)
        => count = GreedyScan(subString, string, 0)

\* C6 witness: "aa" in "aaaa" was counted as 2
C6_Witness ==
    /\ gocPc = "done"
    /\ subString = <<97, 97>>
    /\ string = <<97, 97, 97, 97>>
    /\ count = 2

----------------------------------------------------------------------------
(* Properties of getCommonPathPrefix (SpecPrefix) *)

PathSet(ps) == { ps[i] : i \in 1..Len(ps) }

\* the longest run of leading tokens that all the paths of ps share
CommonTokenRun(ps) ==
    LET toks == { splitPath(q) : q \in PathSet(ps) }
        shared(k) == \A t, u \in toks :
                        /\ Len(t) >= k /\ Len(u) >= k
                        /\ SubSeq(t, 1, k) = SubSeq(u, 1, k)
        longest == CHOOSE k \in 0..(2 * MaxPathLen + 1) :
                      shared(k) /\ \A m \in 0..(2 * MaxPathLen + 1) : shared(m) => m <= k
    IN  SubSeq(splitPath(ps[1]), 1, longest)

\* C7: for two or more paths, getCommonPathPrefix returns the longest
\* prefix shared by ALL the paths that is aligned to the path tokens of
\* every path: the longest common leading run of tokens over the whole set.
C7_LongestTokenAlignedPrefix ==
    (prefixPc = "done" /\ Len(paths) >= 2)
        => commonPrefix = joinTokens(CommonTokenRun(paths))

IsAbsolute(q) == Len(q) >= 1 /\ q[1] = SEP

\* the characters of an absolute path between its leading '/' and the next
FirstSegment(q) ==
    LET rest == Tail(q)
        seps == { j \in 1..Len(rest) : rest[j] = SEP }
    IN  IF seps = {} THEN rest ELSE SubSeq(rest, 1, Min(seps) - 1)

\* two or more absolute paths, no two of them with the same first segment
NoCommonLeadingDirectory(ps) ==
    /\ Len(ps) >= 2
    /\ \A i \in 1..Len(ps) : IsAbsolute(ps[i])
    /\ \A i, j \in 1..Len(ps) :
          i # j => FirstSegment(ps[i]) # FirstSegment(ps[j])

\* C8 as stated: absolute paths that differ in their first segment after
\* the leading '/' give the empty string.
C8_NoCommonDirectoryGivesEmpty ==
    (prefixPc = "done" /\ NoCommonLeadingDirectory(paths))
        => commonPrefix = <<>>

\* C8 as amended: absolute paths that pairwise differ in their first
\* segment after the leading '/' give "/", the leading separator they share.
C8_NoCommonDirectoryGivesRoot ==
    (prefixPc = "done" /\ NoCommonLeadingDirectory(paths))
        => commonPrefix = <<SEP>>

\* C8 witness: the call returned for "/a" and "/-"
C8_Witness ==
    /\ prefixPc = "done"
    /\ NoCommonLeadingDirectory(paths)
    /\ PathSet(paths) = {<<SEP, 97>>, <<SEP, 45>>}

\* C9: fewer than two paths (none, or one) give the empty string.
C9_FewerThanTwoPathsGivesEmpty ==
    (prefixPc = "done" /\ Len(paths) < 2) => commonPrefix = <<>>

\* C9 witness: the call returned for a single non-empty path
C9_Witness ==
    /\ prefixPc = "done"
    /\ Len(paths) = 1
    /\ paths[1] = <<SEP, 97>>

\* C10: fewer than two DISTINCT paths, copies of one path included, give
\* the empty string.
C10_FewerThanTwoDistinctGivesEmpty ==
    (prefixPc = "done" /\ Cardinality(PathSet(paths)) < 2)
        => commonPrefix = <<>>

\* p is a character-wise prefix of s
IsCharPrefix(p, s) == Len(p) <= Len(s) /\ SubSeq(s, 1, Len(p)) = p

\* the least and the greatest string of a non-empty set, by code units
LeastPath(S) == CHOOSE p \in S : \A q \in S : p = q \/ StrLess(p, q)
GreatestPath(S) == CHOOSE p \in S : \A q \in S : p = q \/ StrLess(q, p)

\* C23: for two or more paths in any order, the returned string is a
\* character-wise prefix of every path of the list, and it is a function
\* of the set of paths alone (the shared leading tokens of its least and
\* its greatest path), so that no reordering of the list changes it.
C23_PrefixOfEveryPathInAnyOrder ==
    (prefixPc = "done" /\ Len(paths) >= 2) =>
        /\ \A i \in 1..Len(paths) : IsCharPrefix(commonPrefix, paths[i])
        /\ commonPrefix =
             joinTokens(CommonTokenRun(<<LeastPath(PathSet(paths)),
                                         GreatestPath(PathSet(paths))>>))

\* C23 witness: three different paths given with the greatest first and
\* the least last, and a non-empty prefix returned
C23_Witness ==
    /\ prefixPc = "done"
    /\ Len(paths) = 3
    /\ StrLess(paths[2], paths[1])
    /\ StrLess(paths[3], paths[2])
    /\ commonPrefix # <<>>

----------------------------------------------------------------------------
(* Properties of splitLinesByEOL and isEOLAtPosition (SpecEol) *)

\* The lines of a text, read character by character from the 0-based
\* offset p: a "\r\n" pair or a "\n" ends the line that began at `start`.
\* Every line is [start, line, term], term being the terminator after it,
\* empty for the last line.
RECURSIVE ScanLines(_, _, _, _)
ScanLines(s, p, start, out) ==
    IF p >= Len(s)
    THEN Append(out, [start |-> start, line |-> SubSeq(s, start + 1, Len(s)), term |-> <<>>])
    ELSE IF s[p + 1] = 13 /\ p + 1 < Len(s) /\ s[p + 2] = 10
    THEN ScanLines(s, p + 2, p + 2,
             Append(out, [start |-> start, line |-> SubSeq(s, start + 1, p), term |-> <<13, 10>>]))
    ELSE IF s[p + 1] = 10
    THEN ScanLines(s, p + 1, p + 1,
             Append(out, [start |-> start, line |-> SubSeq(s, start + 1, p), term |-> <<10>>]))
    ELSE ScanLines(s, p + 1, start, out)

TextLines(s) == ScanLines(s, 0, 0, <<>>)

\* line followed by eol for every entry, in order
RECURSIVE Rejoin(_)
Rejoin(entries) ==
    IF entries = <<>> THEN <<>>
    ELSE Head(entries).line \o Head(entries).eol \o Rejoin(Tail(entries))

\* C11: for every text, concatenating line followed by eol for every entry
\* of splitLinesByEOL, in order, reproduces the original text exactly.
C11_EOLRoundTrip ==
    splitPc = "done" => Rejoin(splitLines) = content

EndsWithTerminator(s) == Len(s) >= 1 /\ s[Len(s)] = 10

C13_TrueOnlyAtLineTerminator ==
    (eolPc = "done" /\ isEOL) =>
        LET ref == TextLines(content)
        IN  /\ eolLine <= Len(ref)
            /\ ref[eolLine].term # <<>>
            /\ eolColumn = Len(ref[eolLine].line)

\* does the text begin with "\n" or "\r\n" at the 0-based offset o
TerminatorCharAt(s, o) ==
    /\ o < Len(s)
    /\ \/ s[o + 1] = 10
       \/ s[o + 1] = 13 /\ o + 1 < Len(s) /\ s[o + 2] = 10

\* C13 as amended: true exactly when the addressed line exists and the text
\* at the offset of its start plus column begins with "\n" or "\r\n".
C13_TrueExactlyOnTerminatorText ==
    eolPc = "done" =>
        LET ref == TextLines(content)
        IN  isEOL <=> /\ eolLine <= Len(ref)
                      /\ TerminatorCharAt(content, ref[eolLine].start + eolColumn)

\* C13 witness: true was returned for the "\n" inside the "\r\n" pair that
\* ends the addressed second line
C13_Witness ==
    /\ eolPc = "done"
    /\ isEOL
    /\ eolLine = 2
    /\ LET ref == TextLines(content)
       IN  /\ eolLine <= Len(ref)
           /\ ref[eolLine].term = CR_LF
           /\ eolColumn = Len(ref[eolLine].line) + 1

\* C14: false for every position whose line does not exist (the text has
\* fewer than line - 1 terminators), and for every position on the
\* unterminated last line.
C14_FalseWhenLineMissing ==
    (eolPc = "done" /\ eolLine >= Len(TextLines(content))) => ~isEOL

\* C14 witness: the call returned for a line beyond the last line of a text
\* that has terminators
C14_Witness ==
    /\ eolPc = "done"
    /\ Len(TextLines(content)) >= 2
    /\ eolLine > Len(TextLines(content))
    /\ ~isEOL

\* length(line) + length(eol) summed over the first k entries
RECURSIVE EntriesLength(_, _)
EntriesLength(entries, k) ==
    IF k = 0 THEN 0
    ELSE EntriesLength(entries, k - 1) + Len(entries[k].line) + Len(entries[k].eol)

\* C24: for every line k that exists, the offset isEOLAtPosition reaches
\* after k - 1 advances is the sum of length(line) + length(eol) over the
\* first k - 1 entries of splitLinesByEOL, and at column length(line of
\* entry k) it returns true exactly when a terminator follows entry k in
\* the text.
C24_EOLFunctionsAgreeOnLineStarts ==
    (splitPc = "done" /\ eolPc = "done" /\ eolLine <= Len(splitLines)) =>
        /\ lineStartOffset(content, eolLine, 1, 0)
              = EntriesLength(splitLines, eolLine - 1)
        /\ eolColumn = Len(splitLines[eolLine].line) =>
              (isEOL <=> TextLines(content)[eolLine].term # <<>>)

\* C24 witness: line 3 comes after one "\n" and one "\r\n", and the call at
\* the end of line 3 found the terminator that follows it
C24_Witness ==
    /\ splitPc = "done" /\ eolPc = "done"
    /\ eolLine = 3
    /\ Len(splitLines) >= 4
    /\ splitLines[1].eol # splitLines[2].eol
    /\ eolColumn = Len(splitLines[3].line)
    /\ isEOL

----------------------------------------------------------------------------
(* Properties of formatBytes (SpecFormatBytes) *)

HasSuffix(s, suffix) ==
    /\ Len(suffix) <= Len(s)
    /\ SubSeq(s, Len(s) - Len(suffix) + 1, Len(s)) = suffix

\* C15: for every n > 0, below 1 and from 1024^9 on too, the result ends
\* with a space and one of the units B, KB, ..., YB, never with 'undefined'.
C15_SuffixIsAUnit ==
    (bytesPc = "done" /\ bytes # ZeroBytes) =>
        \E k \in 1..Len(BYTE_SIZES) : HasSuffix(formattedBytes, SPACE \o BYTE_SIZES[k])

\* the fraction 0.f[1]f[2]... (base 1024) times ten
RECURSIVE TimesTen(_)
TimesTen(f) ==
    IF f = <<>> THEN [whole |-> 0, rest |-> <<>>]
    ELSE LET low == TimesTen(Tail(f))
         IN  [whole |-> (Head(f) * 10 + low.whole) \div 1024,
              rest |-> <<(Head(f) * 10 + low.whole) % 1024>> \o low.rest]

\* whole + 0.f[1]f[2]... written with d decimals, one decimal at a time, and
\* rounded to the nearest: the integer the digits spell
RECURSIVE RoundedQuotient(_, _, _)
RoundedQuotient(whole, f, d) ==
    IF d = 0 THEN (IF f # <<>> /\ f[1] >= 512 THEN whole + 1 ELSE whole)
    ELSE RoundedQuotient(10 * whole + TimesTen(f).whole, TimesTen(f).rest, d - 1)

\* a decimal string without the zeros that end its decimals
RECURSIVE WithoutTrailingZeros(_)
WithoutTrailingZeros(s) ==
    IF \E i \in 1..Len(s) : s[i] = 46
    THEN IF s[Len(s)] = 48 \/ s[Len(s)] = 46
         THEN WithoutTrailingZeros(SubSeq(s, 1, Len(s) - 1))
         ELSE s
    ELSE s

\* n / 1024^k for 1024^k <= n < 1024^(k+1), rounded to d places, trailing
\* zeros stripped, a space and the k-th unit
ClaimedBytesString(b, d) ==
    WithoutTrailingZeros(
        toFixedString(RoundedQuotient(b.digits[1], Tail(b.digits), d), d))
    \o SPACE \o BYTE_SIZES[b.exp + 1]

\* C16: formatBytes(0) is "0 B", and for an integer n with
\* 1024^k <= n < 1024^(k+1), k in 0..8, formatBytes(n, decimals) is n / 1024^k
\* rounded to decimals places (2 when left out), trailing zeros stripped,
\* then a space and the k-th unit.
C16_RoundedValueAndUnit ==
    bytesPc = "done" =>
        /\ bytes = ZeroBytes => formattedBytes = <<48, 32, 66>>
        /\ (/\ bytes # ZeroBytes
            /\ IsIntegerBytes(bytes)
            /\ bytes.exp \in 0 .. Len(BYTE_SIZES) - 1)
           => formattedBytes = ClaimedBytesString(bytes, decimalsOrDefault(decimals))

----------------------------------------------------------------------------
(* Properties of formatPercent (SpecFormatPercent) *)

\* the number of characters after the decimal point of s, 0 without a point
PlacesOf(s) ==
    IF \E i \in 1..Len(s) : s[i] = 46
    THEN Len(s) - (CHOOSE i \in 1..Len(s) : s[i] = 46)
    ELSE 0

\* the natural number the decimal digits of s spell, its point left out
RECURSIVE DigitsValue(_)
DigitsValue(s) ==
    IF s = <<>> THEN 0
    ELSE IF s[Len(s)] = 46 THEN DigitsValue(SubSeq(s, 1, Len(s) - 1))
    ELSE 10 * DigitsValue(SubSeq(s, 1, Len(s) - 1)) + (s[Len(s)] - 48)

\* s is a decimal number: digits, and one point with digits on both sides
IsDecimalString(s) ==
    /\ s # <<>>
    /\ \A i \in 1..Len(s) : s[i] \in 48..57 \/ (s[i] = 46 /\ 1 < i /\ i < Len(s))
    /\ Cardinality({i \in 1..Len(s) : s[i] = 46}) <= 1
    /\ (s[1] = 48 => (Len(s) = 1 \/ s[2] = 46))

AbsDiff(a, b) == IF a >= b THEN a - b ELSE b - a

\* C17: for total > 0, formatPercent(value, total, digits) is a decimal
\* string with exactly digits decimals (none when digits is left out), zeros
\* kept, whose number is 100 * value / total rounded to that many places:
\* no number of that many places is nearer to the quotient.
C17_RoundedToDigits ==
    percentPc = "done" =>
        LET d == digitsOrZero(fractionDigits)
        IN  /\ IsDecimalString(formattedPercent)
            /\ PlacesOf(formattedPercent) = d
            /\ 2 * AbsDiff(DigitsValue(formattedPercent) * total,
                           100 * value * pow10(d)) <= total

\* C17 witness: formatPercent(50, 200, 1) returned "25.0"
C17_Witness ==
    /\ percentPc = "done"
    /\ value = 50 /\ total = 200 /\ fractionDigits = 1
    /\ formattedPercent = <<50, 53, 46, 48>>

----------------------------------------------------------------------------
(* Properties of the attribution engine (SpecEngine) *)

\* some offset decreases or lies outside 0 <= offset < N
Malformed(N, entries) ==
    \/ \E i \in 1..Len(entries) : entries[i].offset < 0 \/ entries[i].offset >= N
    \/ \E i, j \in 1..Len(entries) : i < j /\ entries[i].offset > entries[j].offset

\* C18: a mapping list whose offsets decrease, or fall outside
\* 0 <= offset < N, fails with MalformedMappingError and produces no ranges.
C18_MalformedMappingRejected ==
    (enginePc # "call" /\ Malformed(artifactLength, mappingEntries)) =>
        /\ enginePc = "malformed"
        /\ attribution.threw
        /\ sourceAggregate = <<>>

\* C18 witness: two entries in bounds, the second offset below the first,
\* were rejected
C18_Witness ==
    /\ enginePc = "malformed"
    /\ Len(mappingEntries) = 2
    /\ \A i \in 1..2 : mappingEntries[i].offset \in 0 .. artifactLength - 1
    /\ mappingEntries[2].offset < mappingEntries[1].offset

\* the source of the byte at an offset that has entries: of the last of them
SourceAt(entries, offset) ==
    LET last == CHOOSE i \in 1..Len(entries) :
                    /\ entries[i].offset = offset
                    /\ \A j \in (i + 1)..Len(entries) : entries[j].offset # offset
    IN  entries[last].source

\* C19: with N > 0 an empty mapping list gives exactly one unmapped range
\* 0..N-1, and a first entry of offset > 0 gives an unmapped first range
\* that starts at 0 and holds the bytes 0..offset-1 (and no more, unless
\* the byte at offset is unmapped too and the merger joins it).
C19_UnmappedBytesKept ==
    (/\ enginePc # "call"
     /\ artifactLength > 0
     /\ ~Malformed(artifactLength, mappingEntries))
    => /\ enginePc = "done"
       /\ mappingEntries = <<>> =>
            attribution.value = <<MappingRange(0, artifactLength - 1, UNMAPPED)>>
       /\ (mappingEntries # <<>> /\ mappingEntries[1].offset > 0) =>
            /\ attribution.value # <<>>
            /\ attribution.value[1].source = UNMAPPED
            /\ attribution.value[1].start = 0
            /\ attribution.value[1].end >= mappingEntries[1].offset - 1
            /\ (SourceAt(mappingEntries, mappingEntries[1].offset) # UNMAPPED =>
                  attribution.value[1].end = mappingEntries[1].offset - 1)

\* C19 witness: the first entry maps offset 2 to a file, and the run gave an
\* unmapped range 0..1 followed by the file's range
C19_Witness ==
    /\ enginePc = "done"
    /\ mappingEntries # <<>>
    /\ mappingEntries[1].offset = 2
    /\ mappingEntries[1].source # UNMAPPED
    /\ Len(attribution.value) >= 2
    /\ attribution.value[1] = MappingRange(0, 1, UNMAPPED)

----------------------------------------------------------------------------
(* Properties of the calls on the caller's arrays (SpecFrame) *)

\* C22: after any of the calls the caller's ranges array holds the same
\* objects with the same fields and the caller's paths array the same
\* strings in the same order, and the second call on the same array returns
\* what the first one returned, whether or not the other helper was called
\* in between.
C22_InputsUnchangedOutputsEqual ==
    framePc \in {"between", "done"} =>
        /\ heap.rangesArr = [i \in 1..Len(callerRanges) |-> i]
        /\ heap.objs = callerRanges
        /\ heap.pathsArr = callerPaths
        /\ framePc = "done" => secondResult = firstResult

\* C22 witness: getCommonPathPrefix was called twice on a list of two paths
\* that is not in sorted order, with a call of mergeRanges in between
C22_Witness ==
    /\ framePc = "done"
    /\ frameHelper = "getCommonPathPrefix"
    /\ betweenCalls = 1
    /\ Len(callerPaths) = 2
    /\ StrLess(callerPaths[2], callerPaths[1])
    /\ callerRanges # <<>>

----------------------------------------------------------------------------
(* Properties of the module loader (SpecLoader) *)

\* a call of define on an id that was in the registry left the registry as
\* it was
SecondDefineChangesNothing ==
    lastCall.op = "define" /\ lastCall.existed => ~lastCall.changedRegistry

\* a call of require on a module that was loaded, or was being loaded,
\* returned the module's exports and did not invoke the factory
LoadedReturnsExports ==
    lastCall.op = "require" /\ lastCall.wasInitialized =>
        /\ lastCall.outcome = "returned"
        /\ lastCall.value = lastCall.id
        /\ ~lastCall.ran

\* a call of require on a module whose load had failed threw the stored
\* error
FailedRethrows ==
    /\ lastCall.outcome = "threw"
    /\ lastCall.error = lastCall.storedError
    /\ lastCall.error # NoError

\* a call of require on a module whose load had failed handed the stored
\* error to the error handler of the host, which returned, and returned
\* undefined
FailedReported ==
    /\ lastCall.guarded /\ ~lastCall.nested /\ hasErrorUtils /\ ~handlerThrows
    /\ lastCall.outcome = "returned"
    /\ lastCall.value = UNDEF
    /\ lastCall.reported = lastCall.storedError
    /\ lastCall.reported # NoError

\* C25 as stated: each module's factory is invoked at most once: a second
\* define of an existing id leaves the registry unchanged, a require after
\* a successful load or during the load returns the module's exports
\* without entering the factory again, and a require after a failed load
\* rethrows the stored error without running the factory again.
C25_AtMostOnceAndFailedRethrows ==
    /\ \A m \in ModuleIds : invocations[m] <= 1
    /\ SecondDefineChangesNothing
    /\ LoadedReturnsExports
    /\ lastCall.op = "require" /\ lastCall.hadError =>
          ~lastCall.ran /\ FailedRethrows

\* C25 amended: each module's factory is invoked at most once: a second
\* define of an existing id leaves the registry unchanged, a require after
\* a successful load or during the load returns the module's exports
\* without entering the factory again, and a require after a failed load
\* does not run the factory again: it rethrows the stored error, or, when
\* it is a require of the host that takes the guard and the error handler
\* of the host returns, hands the stored error to that handler and returns
\* undefined.
C25_AtMostOnceAndFailedRethrowsOrReports ==
    /\ \A m \in ModuleIds : invocations[m] <= 1
    /\ SecondDefineChangesNothing
    /\ LoadedReturnsExports
    /\ lastCall.op = "require" /\ lastCall.hadError =>
          ~lastCall.ran /\ (FailedRethrows \/ FailedReported)

\* C25 witness: the factory of a module was invoked once and threw, and a
\* later require of that module by the host, with the guard taken and a
\* handler that returns, returned undefined
C25_Witness ==
    /\ lastCall.op = "require" /\ lastCall.hadError
    /\ invocations[lastCall.id] = 1
    /\ lastCall.storedError = FactoryError(lastCall.id)
    /\ FailedReported
    /\ stack = <<>>

====
